---- MODULE Spec2Model ----
(***************************************************************************)
(* Review-lifecycle pipeline of team-xc7: the snapshot chain store, the    *)
(* review ledger, the classification oracle adapter, the commit-chain      *)
(* classifier and the request that stores its outcomes.                    *)
(*                                                                         *)
(* Confidence values are integers in hundredths (0.6 is 60, 1.5 is 150).   *)
(***************************************************************************)
EXTENDS Integers, Sequences, FiniteSets, TLC

VARIABLES
    snapshots,        \* code_snapshots: commit id -> [stored, parent_commit_id]
    reviews,          \* code_review_suggestions: review_id (index) -> commit_id
    classifications,  \* review_classifications rows, in classification_id order
    pc,               \* per caller: position in classify_snapshot
    target,           \* per caller: merged commit id handed to classify_commits
    oracle,           \* per caller: completions the oracle gave, one per call of the walk
    results,          \* per caller: all_classifications returned by classify_commits
    idx,              \* per caller: index of the result being saved
    returned,         \* per caller: rows returned by create_classification so far
    raw_output,       \* adapter run: the oracle's completion
    outcome,          \* adapter run: what llm_classify_review did with it
    parsed,           \* adapter run: what safe_json_parse made of it
    issues,           \* canonicalizer: the list handed to batched_llm_grouped_recurring_issues
    batch_start,      \* canonicalizer: index of the first issue of the current batch
    attempt,          \* canonicalizer: oracle calls made for the current batch
    last_response,    \* canonicalizer: the completion of the latest oracle call
    all_grouped,      \* canonicalizer: canonical category -> originals, in insertion order
    batch_log,        \* canonicalizer: per finished batch, its calls and its result
    canon_pc,         \* calculate_metrics: "off", "start", "run", "returned", "raised", "reported"
    team_grouped_issues,  \* calculate_team_metrics: the top-K canonical groups
    joined,           \* metrics: the rows get_all_classifications_with_snapshot_info returns
    metrics,          \* metrics: what calculate_metrics computed from them
    risk_input,       \* risk scorer: the project's data and the oracle's two completions
    risk_assessments, \* risk scorer: the risk_assessments table
    risk_result       \* risk scorer: what calculate_risk returned or raised

vars == <<snapshots, reviews, classifications, pc, target, oracle, results,
          idx, returned, raw_output, outcome, parsed,
          issues, batch_start, attempt, last_response, all_grouped, batch_log,
          canon_pc, team_grouped_issues,
          joined, metrics, risk_input, risk_assessments, risk_result>>

metricsVars == <<joined, metrics>>
riskVars == <<risk_input, risk_assessments, risk_result>>

canonVars == <<issues, batch_start, attempt, last_response, all_grouped, batch_log,
               canon_pc, team_grouped_issues>>
aggregateVars == <<canonVars, metricsVars, riskVars>>

storeVars == <<snapshots, reviews, classifications>>
callerVars == <<pc, target, oracle, results, idx, returned>>
adapterVars == <<raw_output, outcome, parsed>>

-----------------------------------------------------------------------------
(* Program constants                                                       *)

REVIEW_CATEGORIES ==
    {"Code Quality", "Documentation", "Debugging", "Performance", "Security", "Style", "Other"}

CLASSIFICATION_ACCEPTED == "accepted"

CLASSIFICATION_MODIFIED == "modified"

CLASSIFICATION_REJECTED == "rejected"

CONFIDENCE_THRESHOLD == 60

VALID_LABELS == {CLASSIFICATION_ACCEPTED, CLASSIFICATION_MODIFIED, CLASSIFICATION_REJECTED}

DEFAULT_LABEL == CLASSIFICATION_REJECTED

DEFAULT_CATEGORY == "Other"

DEFAULT_RECURRING_ISSUE == "Other"

UNKNOWN_LABEL == "unknown"

-----------------------------------------------------------------------------
(* Oracle completions.  A completion is the text the oracle returned, kept *)
(* as the facts the parsers look at: whether it is JSON at all, whether it *)
(* is wrapped in ``` fences, whether it carries a trailing comma, and the  *)
(* JSON value it denotes once those are removed.  form "raise" is a failed *)
(* invocation (transport error, or a completion without content).          *)

Missing == "<missing>"

Null == "<null>"

\* values of the "label" key: absent, null, or a string
LabelFields ==
    {Missing, Null, "accepted", " Accepted ", "modified", "rejected", "not_handled"}

\* values of the "confidence" key: absent, null, a number, a numeric string,
\* or a string float() rejects
ConfNumbers == {-50, 0, 59, 60, 90, 100, 150}

ConfFields ==
    {[k |-> "missing", n |-> 0], [k |-> "null", n |-> 0], [k |-> "text", n |-> 0]}
      \cup [k : {"num"}, n : ConfNumbers]
      \cup [k : {"numstr"}, n : {30, 90}]

\* values of the "category" key
CategoryFields == {Missing, Null, "", "Security", " Style ", "Other", "Naming"}

\* values of the "recurring_issue" key
IssueFields == {Missing, "", "missing type hints"}

JsonObjects ==
    [type : {"object"}, label : LabelFields, confidence : ConfFields,
     category : CategoryFields, recurring_issue : IssueFields]

NoFields ==
    [label |-> Missing, confidence |-> [k |-> "missing", n |-> 0],
     category |-> Missing, recurring_issue |-> Missing]

\* a JSON value that is not an object (an array, a number)
JsonArray == [type |-> "array"] @@ NoFields

NoValue == [type |-> "none"] @@ NoFields

TextCompletions ==
    [form : {"json"}, fenced : BOOLEAN, trailing : BOOLEAN,
     value : JsonObjects \cup {JsonArray}]
      \cup [form : {"empty", "garbage"}, fenced : {FALSE}, trailing : {FALSE}, value : {NoValue}]

RaisedCompletion == [form |-> "raise", fenced |-> FALSE, trailing |-> FALSE, value |-> NoValue]

Completions == TextCompletions \cup {RaisedCompletion}

-----------------------------------------------------------------------------
(* Parsing                                                                 *)

ParseFailure == [ok |-> FALSE, value |-> NoValue]

\* json.loads: accepts only bare, well-formed JSON text
json_loads(text) ==
    IF text.form = "json" /\ ~text.fenced /\ ~text.trailing
    THEN [ok |-> TRUE, value |-> text.value]
    ELSE ParseFailure

\* re.sub(r"^```(?:json)?\s*|\s*```$", "", ...): drops the fences
strip_fences(text) == [text EXCEPT !.fenced = FALSE]

\* re.sub(r",\s*([\]}])", r"\1", ...): drops trailing commas
fix_trailing_commas(text) == [text EXCEPT !.trailing = FALSE]

\* safe_json_parse: {} for empty text; strict parse of the unfenced text;
\* then a parse of the repaired text; {} when that fails too
safe_json_parse(text) ==
    IF text.form = "empty"
    THEN ParseFailure
    ELSE LET cleaned == strip_fences(text)
             first == json_loads(cleaned)
         IN  IF first.ok THEN first ELSE json_loads(fix_trailing_commas(cleaned))

\* str.strip()
strip(s) ==
    CASE s = " Accepted " -> "Accepted"
      [] s = " Style " -> "Style"
      [] OTHER -> s

\* str.lower()
lower(s) ==
    CASE s = "Accepted" -> "accepted"
      [] OTHER -> s

\* float(x): defined for numbers and numeric strings
float_ok(c) == c.k \in {"num", "numstr", "missing"}

float(c) == IF c.k = "missing" THEN 0 ELSE c.n

-----------------------------------------------------------------------------
(* Classification oracle adapter                                           *)

Outcome(raised, label, confidence, rationale, category, recurring_issue) ==
    [raised |-> raised, label |-> label, confidence |-> confidence,
     rationale |-> rationale, category |-> category,
     recurring_issue |-> recurring_issue]

\* the exception of get_llm_completion leaves llm_classify_review
RaisedOutcome == Outcome(TRUE, "", 0, "", "", "")

\* "x or default"
OrDefault(s, default) == IF s = "" THEN default ELSE s

\* dict.get(key, "") followed by .strip(): raises on null
GetStr(field) == IF field = Missing THEN "" ELSE field

\* the try block of llm_classify_review: TRUE when no statement raises
FieldsParse(value) ==
    /\ value.type = "object"
    /\ value.label # Null
    /\ float_ok(value.confidence)
    /\ value.category # Null
    /\ value.recurring_issue # Null

ParseFailureOutcome ==
    Outcome(FALSE, DEFAULT_LABEL, 0, "parse_failure", DEFAULT_CATEGORY, DEFAULT_RECURRING_ISSUE)

\* llm_classify_review without the confidence check of lines 117-125
llm_classify_review_no_floor(completion) ==
    IF completion.form = "raise"
    THEN RaisedOutcome
    ELSE LET loaded == json_loads(completion)
         IN  IF ~loaded.ok \/ ~FieldsParse(loaded.value)
             THEN ParseFailureOutcome
             ELSE LET label == lower(strip(GetStr(loaded.value.label)))
                      category == strip(GetStr(loaded.value.category))
                      recurring_issue == strip(GetStr(loaded.value.recurring_issue))
                  IN  Outcome(FALSE,
                              IF label \in VALID_LABELS THEN label ELSE DEFAULT_LABEL,
                              float(loaded.value.confidence), "oracle",
                              IF category \in REVIEW_CATEGORIES THEN category
                                                                ELSE DEFAULT_CATEGORY,
                              OrDefault(recurring_issue, DEFAULT_RECURRING_ISSUE))

llm_classify_review(completion) ==
    IF completion.form = "raise"
    THEN RaisedOutcome
    ELSE LET loaded == json_loads(completion)
         IN  IF ~loaded.ok \/ ~FieldsParse(loaded.value)
             THEN ParseFailureOutcome
             ELSE LET label == lower(strip(GetStr(loaded.value.label)))
                      confidence == float(loaded.value.confidence)
                      category == strip(GetStr(loaded.value.category))
                      recurring_issue == strip(GetStr(loaded.value.recurring_issue))
                  IN  IF confidence < CONFIDENCE_THRESHOLD
                      THEN Outcome(FALSE, DEFAULT_LABEL, confidence, "low_confidence",
                                   OrDefault(category, DEFAULT_CATEGORY),
                                   OrDefault(recurring_issue, DEFAULT_RECURRING_ISSUE))
                      ELSE Outcome(FALSE,
                                   IF label \in VALID_LABELS THEN label ELSE DEFAULT_LABEL,
                                   confidence, "oracle",
                                   IF category \in REVIEW_CATEGORIES THEN category
                                                                     ELSE DEFAULT_CATEGORY,
                                   OrDefault(recurring_issue, DEFAULT_RECURRING_ISSUE))

-----------------------------------------------------------------------------
(* Bounds                                                                  *)

\* review_id values handed out by the autoincrement column
MaxReviews == 2

CommitIds == {"A", "B", "C"}

Callers == {1, 2}

\* parent_commit_id = None
NoParent == "<none>"

\* completions the oracle gives during chain walks
Accepted90 ==
    [form |-> "json", fenced |-> FALSE, trailing |-> FALSE,
     value |-> [type |-> "object", label |-> "accepted",
                confidence |-> [k |-> "num", n |-> 90],
                category |-> "Security", recurring_issue |-> "missing type hints"]]

Modified150 ==
    [form |-> "json", fenced |-> FALSE, trailing |-> FALSE,
     value |-> [type |-> "object", label |-> "modified",
                confidence |-> [k |-> "num", n |-> 150],
                category |-> "Other", recurring_issue |-> ""]]

WalkCompletions == {Accepted90, Modified150, RaisedCompletion}

-----------------------------------------------------------------------------
(* Persistent store                                                        *)

NoSnapshot == [stored |-> FALSE, parent_commit_id |-> NoParent]

\* db.query(CodeSnapshot).filter(commit_id == ...).first() is not None
get_snapshot_by_commit(commit_id) == snapshots[commit_id].stored

\* review ids attached to a commit, in storage order
get_reviews_for_commit(commit_id) ==
    SelectSeq([i \in 1..Len(reviews) |-> i], LAMBDA r : reviews[r] = commit_id)

\* rows of review_classifications for one review
RowsFor(review_id) == SelectSeq(classifications, LAMBDA row : row.review_id = review_id)

\* create_snapshot: a new row; "" and None both store no parent
create_snapshot(commit_id, parent_commit_id) ==
    /\ ~snapshots[commit_id].stored
    /\ snapshots' = [snapshots EXCEPT ![commit_id] =
                        [stored |-> TRUE, parent_commit_id |-> parent_commit_id]]
    /\ UNCHANGED <<reviews, classifications>>
    /\ UNCHANGED callerVars
    /\ UNCHANGED adapterVars
    /\ UNCHANGED aggregateVars

\* create_review: the next review_id, attached to a stored snapshot
create_review(commit_id) ==
    /\ snapshots[commit_id].stored
    /\ Len(reviews) < MaxReviews
    /\ reviews' = Append(reviews, commit_id)
    /\ UNCHANGED <<snapshots, classifications>>
    /\ UNCHANGED callerVars
    /\ UNCHANGED adapterVars
    /\ UNCHANGED aggregateVars

-----------------------------------------------------------------------------
(* Commit-chain classifier                                                 *)

\* One oracle call of the walk: the review, its snapshot (BEFORE) and the
\* snapshot one step closer to the target (AFTER).
Call(review_id, parent, child) ==
    [review_id |-> review_id, parent_commit_id |-> parent, child_commit_id |-> child]

\* the loop classifying the reviews of the child of each pair
CallsFor_child(parent, child) ==
    LET rs == get_reviews_for_commit(child)
    IN  [i \in 1..Len(rs) |-> Call(rs[i], parent, child)]

\* the loop handing the pair to the oracle and to the tags the other way round
CallsFor_swapped(parent, child) ==
    LET rs == get_reviews_for_commit(parent)
    IN  [i \in 1..Len(rs) |-> Call(rs[i], child, parent)]

CallsFor(parent, child) ==
    LET rs == get_reviews_for_commit(parent)
    IN  [i \in 1..Len(rs) |-> Call(rs[i], parent, child)]

\* the loop leaving out the reviews of the chain's root
RECURSIVE Traverse_skip_root(_, _, _)
Traverse_skip_root(current, visited, calls) ==
    LET parent == snapshots[current].parent_commit_id
    IN  IF parent = NoParent
        THEN [status |-> "returned", calls |-> calls]
        ELSE IF ~get_snapshot_by_commit(parent)
        THEN [status |-> "raised", calls |-> calls]
        ELSE IF snapshots[parent].parent_commit_id = NoParent
        THEN [status |-> "returned", calls |-> calls]
        ELSE IF parent \in visited
        THEN [status |-> "looping", calls |-> calls \o CallsFor(parent, current)]
        ELSE Traverse_skip_root(parent, visited \cup {parent},
                                calls \o CallsFor(parent, current))

\* the loop taking a parent id that resolves to no snapshot for the root
RECURSIVE Traverse_skip_missing(_, _, _)
Traverse_skip_missing(current, visited, calls) ==
    LET parent == snapshots[current].parent_commit_id
    IN  IF parent = NoParent \/ ~get_snapshot_by_commit(parent)
        THEN [status |-> "returned", calls |-> calls]
        ELSE IF parent \in visited
        THEN [status |-> "looping", calls |-> calls \o CallsFor(parent, current)]
        ELSE Traverse_skip_missing(parent, visited \cup {parent},
                                   calls \o CallsFor(parent, current))

\* the loop putting each pair's outcomes in front of the earlier ones
RECURSIVE Traverse_root_first(_, _, _)
Traverse_root_first(current, visited, calls) ==
    LET parent == snapshots[current].parent_commit_id
    IN  IF parent = NoParent
        THEN [status |-> "returned", calls |-> calls]
        ELSE IF ~get_snapshot_by_commit(parent)
        THEN [status |-> "raised", calls |-> calls]
        ELSE IF parent \in visited
        THEN [status |-> "looping", calls |-> CallsFor(parent, current) \o calls]
        ELSE Traverse_root_first(parent, visited \cup {parent},
                                 CallsFor(parent, current) \o calls)

\* The while loop of classify_commits from current_snapshot on.  visited
\* holds the snapshots that have been current_snapshot: the loop reads an
\* unchanging store, so reaching one of them again repeats for ever.
RECURSIVE Traverse(_, _, _)
Traverse(current, visited, calls) ==
    LET parent == snapshots[current].parent_commit_id
    IN  IF parent = NoParent
        THEN [status |-> "returned", calls |-> calls]
        ELSE IF ~get_snapshot_by_commit(parent)
        THEN [status |-> "raised", calls |-> calls]
        ELSE IF parent \in visited
        THEN [status |-> "looping", calls |-> calls \o CallsFor(parent, current)]
        ELSE Traverse(parent, visited \cup {parent}, calls \o CallsFor(parent, current))

\* lines 166-191: the outcome appended for one review
Classified(call, completion) ==
    LET o == llm_classify_review(completion)
        t == IF o.raised
             THEN Outcome(TRUE, UNKNOWN_LABEL, 0, "error", DEFAULT_CATEGORY,
                          DEFAULT_RECURRING_ISSUE)
             ELSE o
    IN  [review_id |-> call.review_id,
         parent_commit_id |-> call.parent_commit_id,
         child_commit_id |-> call.child_commit_id,
         classification |-> t.label,
         confidence |-> t.confidence,
         rationale |-> t.rationale,
         category |-> OrDefault(t.category, DEFAULT_CATEGORY),
         recurring_issue |-> OrDefault(t.recurring_issue, DEFAULT_RECURRING_ISSUE)]

\* classify_commits without the try/except around the oracle call
classify_commits_abort(merged_commit_id, completions) ==
    IF ~get_snapshot_by_commit(merged_commit_id)
    THEN [status |-> "raised", all_classifications |-> <<>>]
    ELSE LET t == Traverse(merged_commit_id, {merged_commit_id}, <<>>)
         IN  IF \E i \in 1..Len(t.calls) : completions[i].form = "raise"
             THEN [status |-> "raised", all_classifications |-> <<>>]
             ELSE [status |-> t.status,
                   all_classifications |->
                       [i \in 1..Len(t.calls) |-> Classified(t.calls[i], completions[i])]]

\* classify_commits(db, merged_commit_id) with the oracle answering the
\* walk's calls, in order, with completions
classify_commits(merged_commit_id, completions) ==
    IF ~get_snapshot_by_commit(merged_commit_id)
    THEN [status |-> "raised", all_classifications |-> <<>>]
    ELSE LET t == Traverse(merged_commit_id, {merged_commit_id}, <<>>)
         IN  [status |-> t.status,
              all_classifications |->
                  [i \in 1..Len(t.calls) |-> Classified(t.calls[i], completions[i])]]

\* number of oracle calls the walk from merged_commit_id makes
OracleCalls(merged_commit_id) ==
    IF ~get_snapshot_by_commit(merged_commit_id)
    THEN 0
    ELSE Len(Traverse(merged_commit_id, {merged_commit_id}, <<>>).calls)

-----------------------------------------------------------------------------
(* classify_snapshot: the walk, then create_classification per result      *)

Pending == Outcome(FALSE, "<pending>", 0, "", "", "")

NotParsed == [ok |-> FALSE, value |-> [type |-> "pending"] @@ NoFields]

Row(id, c) ==
    [classification_id |-> id, review_id |-> c.review_id, category |-> c.category,
     classification |-> c.classification, recurring_issue |-> c.recurring_issue,
     confidence |-> c.confidence, rationale |-> c.rationale]

\* the request saving what the walk classified before it raised
StartWalk_saving_partial(p, merged_commit_id) ==
    /\ pc[p] = "idle"
    /\ \E completions \in [1..OracleCalls(merged_commit_id) -> WalkCompletions] :
         LET walk == classify_commits(merged_commit_id, completions)
             base == Len(classifications)
         IN  /\ target' = [target EXCEPT ![p] = merged_commit_id]
             /\ CASE walk.status = "raised" ->
                       /\ pc' = [pc EXCEPT ![p] = "error"]
                       /\ oracle' = [oracle EXCEPT ![p] = completions]
                       /\ classifications' = classifications \o
                              [i \in 1..Len(walk.all_classifications) |->
                                  [classification_id |-> base + i,
                                   review_id |-> walk.all_classifications[i].review_id,
                                   category |-> walk.all_classifications[i].category,
                                   classification |->
                                       walk.all_classifications[i].classification,
                                   recurring_issue |->
                                       walk.all_classifications[i].recurring_issue,
                                   confidence |-> walk.all_classifications[i].confidence,
                                   rationale |-> walk.all_classifications[i].rationale]]
                       /\ UNCHANGED results
                  [] walk.status = "looping" ->
                       /\ pc' = [pc EXCEPT ![p] = "looping"]
                       /\ UNCHANGED <<oracle, results, classifications>>
                  [] OTHER ->
                       /\ pc' = [pc EXCEPT ![p] =
                                    IF Len(walk.all_classifications) = 0 THEN "done"
                                                                         ELSE "save"]
                       /\ oracle' = [oracle EXCEPT ![p] = completions]
                       /\ results' = [results EXCEPT ![p] = walk.all_classifications]
                       /\ UNCHANGED classifications
    /\ UNCHANGED <<idx, returned>>
    /\ UNCHANGED <<snapshots, reviews>>
    /\ UNCHANGED adapterVars
    /\ UNCHANGED aggregateVars

\* main.py line 64: classify_commits runs to its return or its exception.
\* The create_snapshot call of lines 54-61 passes no commit_id, so the merged
\* commit id is taken as the request's input, a snapshot written through
\* create_snapshot as /review writes it.
StartWalk(p, merged_commit_id) ==
    /\ pc[p] = "idle"
    /\ \E completions \in [1..OracleCalls(merged_commit_id) -> WalkCompletions] :
         LET walk == classify_commits(merged_commit_id, completions)
         IN  /\ target' = [target EXCEPT ![p] = merged_commit_id]
             /\ CASE walk.status = "raised" ->
                       /\ pc' = [pc EXCEPT ![p] = "error"]
                       /\ oracle' = [oracle EXCEPT ![p] = completions]
                       /\ UNCHANGED results
                  [] walk.status = "looping" ->
                       /\ pc' = [pc EXCEPT ![p] = "looping"]
                       /\ UNCHANGED <<oracle, results>>
                  [] OTHER ->
                       /\ pc' = [pc EXCEPT ![p] =
                                    IF Len(walk.all_classifications) = 0 THEN "done"
                                                                         ELSE "save"]
                       /\ oracle' = [oracle EXCEPT ![p] = completions]
                       /\ results' = [results EXCEPT ![p] = walk.all_classifications]
    /\ UNCHANGED <<idx, returned>>
    /\ UNCHANGED storeVars
    /\ UNCHANGED adapterVars
    /\ UNCHANGED aggregateVars

\* the position after create_classification returned for results[idx]
Advance(p, row) ==
    /\ returned' = [returned EXCEPT ![p] = Append(@, row)]
    /\ idx' = [idx EXCEPT ![p] = @ + 1]
    /\ pc' = [pc EXCEPT ![p] = IF idx[p] = Len(results[p]) THEN "done" ELSE "save"]
    /\ UNCHANGED <<target, oracle, results>>

\* create_classification lines 173-179: the query finds a row and returns it
create_classification_existing(p) ==
    /\ pc[p] = "save"
    /\ LET rows == RowsFor(results[p][idx[p]].review_id)
       IN  /\ Len(rows) > 0
           /\ \E i \in 1..Len(rows) : Advance(p, rows[i])
    /\ UNCHANGED storeVars
    /\ UNCHANGED adapterVars
    /\ UNCHANGED aggregateVars

\* create_classification going on to the insert without looking at the
\* query's result
create_classification_query_unguarded(p) ==
    /\ pc[p] = "save"
    /\ pc' = [pc EXCEPT ![p] = "insert"]
    /\ UNCHANGED <<target, oracle, results, idx, returned>>
    /\ UNCHANGED storeVars
    /\ UNCHANGED adapterVars
    /\ UNCHANGED aggregateVars

\* create_classification lines 173-178: the query finds no row
create_classification_query(p) ==
    /\ pc[p] = "save"
    /\ Len(RowsFor(results[p][idx[p]].review_id)) = 0
    /\ pc' = [pc EXCEPT ![p] = "insert"]
    /\ UNCHANGED <<target, oracle, results, idx, returned>>
    /\ UNCHANGED storeVars
    /\ UNCHANGED adapterVars
    /\ UNCHANGED aggregateVars

\* create_classification lines 181-192: add, commit, return the new row
create_classification_insert(p) ==
    /\ pc[p] = "insert"
    /\ LET row == Row(Len(classifications) + 1, results[p][idx[p]])
       IN  /\ classifications' = Append(classifications, row)
           /\ Advance(p, row)
    /\ UNCHANGED <<snapshots, reviews>>
    /\ UNCHANGED adapterVars
    /\ UNCHANGED aggregateVars

\* the response (or the error) is sent; the caller serves the next request
Respond(p) ==
    /\ pc[p] \in {"done", "error"}
    /\ pc' = [pc EXCEPT ![p] = "idle"]
    /\ oracle' = [oracle EXCEPT ![p] = <<>>]
    /\ results' = [results EXCEPT ![p] = <<>>]
    /\ idx' = [idx EXCEPT ![p] = 1]
    /\ returned' = [returned EXCEPT ![p] = <<>>]
    /\ target' = [target EXCEPT ![p] = "A"]
    /\ UNCHANGED storeVars
    /\ UNCHANGED adapterVars
    /\ UNCHANGED aggregateVars

-----------------------------------------------------------------------------
(* Recurring-issue canonicalizer                                           *)

RECURRING_ISSUE_TOP_K == 5
MAX_RETRIES == 3
BATCH_SIZE == 5

\* longest list of raw issue strings handed to the canonicalizer
MaxIssues == 6

\* the raw recurring-issue strings of the runs, in a fixed order
IssueList == <<"missing type hints", "no type annotations">>
IssueStrings == {IssueList[i] : i \in 1..Len(IssueList)}

\* the canonical categories the oracle names, in the order it lists them
CanonLabelList == <<"Type Hints", "Typing">>
CanonLabels == {CanonLabelList[i] : i \in 1..Len(CanonLabelList)}

Group(cat, originals) == [cat |-> cat, originals |-> originals]

\* the response {"canonical_categories": {...}} that files string s under f[s]
GroupsOf(f) ==
    SelectSeq([i \in 1..Len(CanonLabelList) |->
                  Group(CanonLabelList[i],
                        SelectSeq(IssueList,
                                  LAMBDA s : s \in DOMAIN f /\ f[s] = CanonLabelList[i]))],
              LAMBDA g : g.originals # <<>>)

\* the groupings that partition exactly the strings sent
Groupings(sent) == {GroupsOf(f) : f \in [sent -> CanonLabels]}

CanonObject(has_key, groups) ==
    [type |-> "object", has_key |-> has_key, groups |-> groups]

NoCanonValue == [type |-> "none", has_key |-> FALSE, groups |-> <<>>]

CanonText(form, fenced, trailing, value) ==
    [form |-> form, fenced |-> fenced, trailing |-> trailing, value |-> value]

\* what get_llm_completion can do on a grouping prompt for the strings sent
GroupingCompletions(sent) ==
    {CanonText("raise", FALSE, FALSE, NoCanonValue),
     CanonText("empty", FALSE, FALSE, NoCanonValue),
     CanonText("garbage", FALSE, FALSE, NoCanonValue),
     CanonText("json", FALSE, FALSE, [NoCanonValue EXCEPT !.type = "array"]),
     CanonText("json", FALSE, FALSE, CanonObject(FALSE, <<>>))}
      \cup {CanonText("json", fenced, trailing, CanonObject(TRUE, g)) :
                fenced \in BOOLEAN, trailing \in BOOLEAN, g \in Groupings(sent)}

NoCompletion == CanonText("none", FALSE, FALSE, NoCanonValue)

LLMError ==
    <<Group("LLMError", <<"Failed to generate valid grouped issues. Please retry later.">>)>>

\* issues[i:i + BATCH_SIZE]
Batch(list, start) ==
    SubSeq(list, start, IF start + BATCH_SIZE - 1 < Len(list)
                        THEN start + BATCH_SIZE - 1 ELSE Len(list))

\* list(set(issues))
issues_to_send(batch) == {batch[i] : i \in 1..Len(batch)}

attempt_outcome_strict(raw) ==
    IF raw.form = "raise" THEN "raise"
    ELSE IF raw.form = "empty" THEN "retry"
    ELSE LET p == json_loads(raw)
         IN  IF p.ok /\ p.value.type = "object" /\ p.value.has_key
             THEN "ok" ELSE "retry"

\* one pass of the retry loop of llm_group_recurring_issues on a completion:
\* "raise" when the oracle call raises, "ok" when the grouping is returned,
\* "retry" when the attempt is given up
attempt_outcome(raw) ==
    IF raw.form = "raise" THEN "raise"
    ELSE IF raw.form = "empty" THEN "retry"
    ELSE LET p == safe_json_parse(raw)
         IN  IF p.ok /\ p.value.type = "object" /\ p.value.has_key
             THEN "ok" ELSE "retry"

CatIndex(grouped, cat) ==
    IF \E i \in 1..Len(grouped) : grouped[i].cat = cat
    THEN CHOOSE i \in 1..Len(grouped) : grouped[i].cat = cat
    ELSE 0

extend_overwrite(grouped, g) ==
    LET i == CatIndex(grouped, g.cat)
    IN  IF i = 0 THEN Append(grouped, g)
        ELSE [grouped EXCEPT ![i].originals = g.originals]

\* all_grouped.setdefault(cat, []).extend(originals)
extend(grouped, g) ==
    LET i == CatIndex(grouped, g.cat)
    IN  IF i = 0 THEN Append(grouped, g)
        ELSE [grouped EXCEPT ![i].originals = @ \o g.originals]

RECURSIVE merge_drop_on_error(_, _)
merge_drop_on_error(grouped, batch_grouped) ==
    IF batch_grouped = LLMError THEN LLMError
    ELSE IF batch_grouped = <<>> THEN grouped
    ELSE merge_drop_on_error(extend(grouped, Head(batch_grouped)), Tail(batch_grouped))

\* for cat, originals in grouped.items(): ...
RECURSIVE merge(_, _)
merge(grouped, batch_grouped) ==
    IF batch_grouped = <<>> THEN grouped
    ELSE merge(extend(grouped, Head(batch_grouped)), Tail(batch_grouped))

BatchResult(calls, ok, grouped) == [calls |-> calls, ok |-> ok, grouped |-> grouped]

\* the current batch is over with the result grouped: fold it into
\* all_grouped and move to the next batch, or return after the last one
FinishBatch(ok, grouped) ==
    /\ all_grouped' = merge(all_grouped, grouped)
    /\ batch_log' = Append(batch_log, BatchResult(attempt + 1, ok, grouped))
    /\ batch_start' = batch_start + BATCH_SIZE
    /\ attempt' = 0
    /\ canon_pc' = IF batch_start + BATCH_SIZE > Len(issues) THEN "returned" ELSE "run"

\* batched_llm_grouped_recurring_issues on an empty list: no batch, {} returned
ReturnEmpty ==
    /\ canon_pc = "run"
    /\ issues = <<>>
    /\ canon_pc' = "returned"
    /\ UNCHANGED <<issues, batch_start, attempt, last_response, all_grouped,
                   batch_log, team_grouped_issues>>
    /\ UNCHANGED storeVars
    /\ UNCHANGED callerVars
    /\ UNCHANGED adapterVars
    /\ UNCHANGED metricsVars
    /\ UNCHANGED riskVars

\* one oracle call of llm_group_recurring_issues for the current batch
GroupAttempt(raw) ==
    /\ canon_pc = "run"
    /\ batch_start <= Len(issues)
    /\ attempt < MAX_RETRIES
    /\ last_response' = raw
    /\ CASE attempt_outcome(raw) = "raise" ->
                /\ canon_pc' = "raised"
                /\ attempt' = attempt + 1
                /\ UNCHANGED <<all_grouped, batch_log, batch_start>>
         [] attempt_outcome(raw) = "ok" ->
                FinishBatch(TRUE, safe_json_parse(raw).value.groups)
         [] attempt_outcome(raw) = "retry" /\ attempt + 1 < MAX_RETRIES ->
                /\ attempt' = attempt + 1
                /\ UNCHANGED <<all_grouped, batch_log, batch_start, canon_pc>>
         [] OTHER ->
                FinishBatch(FALSE, LLMError)
    /\ UNCHANGED <<issues, team_grouped_issues>>
    /\ UNCHANGED storeVars
    /\ UNCHANGED callerVars
    /\ UNCHANGED adapterVars
    /\ UNCHANGED metricsVars
    /\ UNCHANGED riskVars

GroupStep ==
    \E raw \in GroupingCompletions(issues_to_send(Batch(issues, batch_start))) :
        GroupAttempt(raw)

IssueCount(cat, count) == [cat |-> cat, count |-> count]

\* the position of the first largest count
FirstMax(counts) ==
    CHOOSE i \in 1..Len(counts) :
        /\ \A j \in 1..Len(counts) : counts[j].count <= counts[i].count
        /\ \A j \in 1..(i - 1) : counts[j].count < counts[i].count

Without(s, i) == SubSeq(s, 1, i - 1) \o SubSeq(s, i + 1, Len(s))

\* Counter(counts).most_common(k): the k largest counts, largest first,
\* equal counts in insertion order
RECURSIVE most_common(_, _)
most_common(counts, k) ==
    IF k = 0 \/ counts = <<>> THEN <<>>
    ELSE LET i == FirstMax(counts)
         IN  <<counts[i]>> \o most_common(Without(counts, i), k - 1)

\* {canonical: len(instances) for canonical, instances in global_grouped.items()}
team_counts(grouped) ==
    [i \in 1..Len(grouped) |-> IssueCount(grouped[i].cat, Len(grouped[i].originals))]

-----------------------------------------------------------------------------
(* Metrics aggregator                                                      *)

\* longest query result the metrics are computed from
MaxRows == 4

NoDate == "<no date>"
NoText == ""

\* one tuple (classification, developer_name, snapshot_date) of the joined query
JoinedRow(dev, classification, category, day, recurring_issue) ==
    [dev |-> dev, classification |-> classification, category |-> category,
     day |-> day, recurring_issue |-> recurring_issue]

\* the joined rows the metrics runs draw from: two authors, the four labels,
\* rows without category, date or recurring issue
RowChoices ==
    {JoinedRow("dev1", CLASSIFICATION_ACCEPTED, "Style", "day1", IssueList[1]),
     JoinedRow("dev1", CLASSIFICATION_MODIFIED, "Style", "day2", DEFAULT_RECURRING_ISSUE),
     JoinedRow("dev1", CLASSIFICATION_REJECTED, "Style", "day1", DEFAULT_RECURRING_ISSUE),
     JoinedRow("dev1", UNKNOWN_LABEL, "Style", "day1", DEFAULT_RECURRING_ISSUE),
     JoinedRow("dev1", CLASSIFICATION_ACCEPTED, NoText, NoDate, NoText),
     JoinedRow("dev2", CLASSIFICATION_REJECTED, "Security", "day1", IssueList[2]),
     JoinedRow("dev2", CLASSIFICATION_MODIFIED, "Style", "day1", DEFAULT_RECURRING_ISSUE),
     JoinedRow("dev2", UNKNOWN_LABEL, NoText, "day2", NoText)}

JoinedLists == UNION {[1..n -> RowChoices] : n \in 0..MaxRows}

\* the rows of the canonicalizer runs: one author's accepted suggestions,
\* each with one of the raw issue strings
IssueRows == {JoinedRow("dev1", CLASSIFICATION_ACCEPTED, "Style", "day1", s) : s \in IssueStrings}

IssueRowLists == UNION {[1..n -> IssueRows] : n \in 0..MaxIssues}

\* the positions of the rows of one author
RowsOf(rows, dev) == {i \in 1..Len(rows) : rows[i].dev = dev}

\* classification_type in (CLASSIFICATION_ACCEPTED, CLASSIFICATION_MODIFIED)
handled(r) == r.classification \in {CLASSIFICATION_ACCEPTED, CLASSIFICATION_MODIFIED}

\* classification.category or "Other"
category_of(r) == IF r.category = NoText THEN "Other" ELSE r.category

\* classification.recurring_issue and classification.recurring_issue != "Other"
has_issue(r) == r.recurring_issue # NoText /\ r.recurring_issue # "Other"

\* the branches of the fold that touch the category counters
counted(r) == handled(r) \/ r.classification = CLASSIFICATION_REJECTED

dev_totals(rows) ==
    [dev \in {rows[i].dev : i \in 1..Len(rows)} |-> Cardinality(RowsOf(rows, dev))]

accepted_only(rows) ==
    [dev \in {rows[i].dev : i \in {j \in 1..Len(rows) : handled(rows[j])}} |->
        Cardinality({i \in RowsOf(rows, dev) : rows[i].classification = CLASSIFICATION_ACCEPTED})]

accepted_or_modified(rows) ==
    [dev \in {rows[i].dev : i \in {j \in 1..Len(rows) : handled(rows[j])}} |->
        Cardinality({i \in RowsOf(rows, dev) : handled(rows[i])})]

team_accepted_or_modified(rows) == Cardinality({i \in 1..Len(rows) : handled(rows[i])})

team_total(rows) == Len(rows)

\* the rows that reach the per-day counters
Dated(rows) == {i \in 1..Len(rows) : handled(rows[i]) /\ rows[i].day # NoDate}

handled_by_dev_day(rows) ==
    [dev \in {rows[i].dev : i \in Dated(rows)} |->
        [day \in {rows[i].day : i \in Dated(rows) \cap RowsOf(rows, dev)} |->
            Cardinality({i \in Dated(rows) \cap RowsOf(rows, dev) : rows[i].day = day})]]

handled_by_team_day(rows) ==
    [day \in {rows[i].day : i \in Dated(rows)} |->
        Cardinality({i \in Dated(rows) : rows[i].day = day})]

\* the two counters kept per category over the rows at the positions among
CategoryCounters(rows, among, cat) ==
    [accepted |-> Cardinality({i \in among : category_of(rows[i]) = cat /\ handled(rows[i])}),
     rejected |-> Cardinality({i \in among : /\ category_of(rows[i]) = cat
                                             /\ rows[i].classification = CLASSIFICATION_REJECTED})]

Counted(rows) == {i \in 1..Len(rows) : counted(rows[i])}

category_counts(rows) ==
    [dev \in {rows[i].dev : i \in Counted(rows)} |->
        [cat \in {category_of(rows[i]) : i \in Counted(rows) \cap RowsOf(rows, dev)} |->
            CategoryCounters(rows, RowsOf(rows, dev), cat)]]

team_category_counts(rows) ==
    [cat \in {category_of(rows[i]) : i \in Counted(rows)} |->
        CategoryCounters(rows, 1..Len(rows), cat)]

RECURSIVE Distinct(_)
\* the elements of a list, each once, in the order of first occurrence
Distinct(list) ==
    IF list = <<>> THEN <<>>
    ELSE LET front == Distinct(SubSeq(list, 1, Len(list) - 1))
             last == list[Len(list)]
         IN  IF \E i \in 1..Len(front) : front[i] = last THEN front ELSE Append(front, last)

\* raw_issues_by_dev[dev]
IssuesOf(rows, dev) ==
    LET with_issue == SelectSeq(rows, LAMBDA r : r.dev = dev /\ has_issue(r))
    IN  [i \in 1..Len(with_issue) |-> with_issue[i].recurring_issue]

\* the keys of raw_issues_by_dev, in insertion order
IssueDevs(rows) ==
    LET with_issue == SelectSeq(rows, has_issue)
    IN  Distinct([i \in 1..Len(with_issue) |-> with_issue[i].dev])

RECURSIVE ConcatIssues(_, _)
ConcatIssues(rows, devs) ==
    IF devs = <<>> THEN <<>>
    ELSE IssuesOf(rows, Head(devs)) \o ConcatIssues(rows, Tail(devs))

\* [issue for issues in raw_issues_by_dev.values() for issue in issues]
all_issues(rows) == ConcatIssues(rows, IssueDevs(rows))

RECURSIVE SumOf(_)
\* sum(d.values())
SumOf(d) ==
    IF DOMAIN d = {} THEN 0
    ELSE LET k == CHOOSE k \in DOMAIN d : TRUE
         IN  d[k] + SumOf([x \in DOMAIN d \ {k} |-> d[x]])

\* round(num / den, 2) in hundredths; num / den is never halfway between two
\* hundredths for den <= 7
round2(num, den) == (200 * num + den) \div (2 * den)

\* d.get(k, 0)
get(d, k) == IF k \in DOMAIN d THEN d[k] ELSE 0

avg_per_dev(by_dev_day) ==
    [dev \in DOMAIN by_dev_day |->
        IF DOMAIN by_dev_day[dev] # {}
        THEN round2(SumOf(by_dev_day[dev]), Cardinality(DOMAIN by_dev_day[dev]))
        ELSE 0]

acceptance_rate(aom, totals) ==
    [dev \in DOMAIN totals |->
        IF totals[dev] # 0 THEN round2(get(aom, dev), totals[dev]) ELSE 0]

per_dev_category_accepted(counts) ==
    [dev \in DOMAIN counts |-> [cat \in DOMAIN counts[dev] |-> counts[dev][cat].accepted]]

per_dev_category(counts) ==
    [dev \in DOMAIN counts |->
        [cat \in DOMAIN counts[dev] |->
            counts[dev][cat].accepted + counts[dev][cat].rejected]]

\* sum(1 for issue in issues if issue in originals), for each canonical group
dev_counts(dev_issues, grouped) ==
    SelectSeq([g \in 1..Len(grouped) |->
                  IssueCount(grouped[g].cat,
                             Cardinality({i \in 1..Len(dev_issues) :
                                 \E o \in 1..Len(grouped[g].originals) :
                                     grouped[g].originals[o] = dev_issues[i]}))],
              LAMBDA c : c.count > 0)

grouped_issues(rows, grouped) ==
    [dev \in {rows[i].dev : i \in {j \in 1..Len(rows) : has_issue(rows[j])}} |->
        most_common(dev_counts(IssuesOf(rows, dev), grouped), RECURRING_ISSUE_TOP_K)]

team_avg_handled(by_team_day) ==
    IF DOMAIN by_team_day # {}
    THEN round2(SumOf(by_team_day), Cardinality(DOMAIN by_team_day))
    ELSE 0

team_acceptance_rate(aom, total) == IF total # 0 THEN round2(aom, total) ELSE 0

team_category_counts_final(counts) ==
    [cat \in DOMAIN counts |-> counts[cat].accepted + counts[cat].rejected]

NoMetrics == [computed |-> FALSE]

\* the values calculate_metrics returns, rates in hundredths
Metrics(rows, grouped) ==
    [computed |-> TRUE,
     avg_per_dev |-> avg_per_dev(handled_by_dev_day(rows)),
     acceptance_rate |-> acceptance_rate(accepted_or_modified(rows), dev_totals(rows)),
     per_dev_category |-> per_dev_category(category_counts(rows)),
     grouped_issues |-> grouped_issues(rows, grouped),
     team_avg_handled |-> team_avg_handled(handled_by_team_day(rows)),
     team_acceptance_rate |->
         team_acceptance_rate(team_accepted_or_modified(rows), team_total(rows)),
     team_category_counts_final |-> team_category_counts_final(team_category_counts(rows))]

\* calculate_metrics up to the call of the canonicalizer: the query and the
\* fold over its rows; the counters are functions of the rows
FoldRows ==
    /\ canon_pc = "start"
    /\ issues' = all_issues(joined)
    /\ canon_pc' = "run"
    /\ UNCHANGED <<batch_start, attempt, last_response, all_grouped, batch_log,
                   team_grouped_issues>>
    /\ UNCHANGED <<joined, metrics>>
    /\ UNCHANGED storeVars
    /\ UNCHANGED callerVars
    /\ UNCHANGED adapterVars
    /\ UNCHANGED riskVars

\* calculate_metrics after the canonicalizer returned: the developer-level
\* and the team-level metrics
DeriveMetrics ==
    /\ canon_pc = "returned"
    /\ metrics' = Metrics(joined, all_grouped)
    /\ team_grouped_issues' = most_common(team_counts(all_grouped), RECURRING_ISSUE_TOP_K)
    /\ canon_pc' = "reported"
    /\ UNCHANGED <<issues, batch_start, attempt, last_response, all_grouped, batch_log>>
    /\ UNCHANGED joined
    /\ UNCHANGED storeVars
    /\ UNCHANGED callerVars
    /\ UNCHANGED adapterVars
    /\ UNCHANGED riskVars

\* the oracle of the metrics runs answers with bare JSON or not at all
PlainCompletions(sent) ==
    {raw \in GroupingCompletions(sent) : ~raw.fenced /\ ~raw.trailing /\ raw.value.type # "array"}

PlainGroupStep ==
    \E raw \in PlainCompletions(issues_to_send(Batch(issues, batch_start))) :
        GroupAttempt(raw)

-----------------------------------------------------------------------------
(* Risk scorer                                                             *)

\* the weights in tenths, the thresholds and the band edges in hundredths
FR_WEIGHT == 5
NFR_WEIGHT == 4
COMPILATION_WEIGHT == 1
RISK_GO_THRESHOLD == 70
RISK_NO_GO_THRESHOLD == 50

RiskBand(level, low, high) == [level |-> level, low |-> low, high |-> high]

\* the dict's items, in insertion order
RISK_LEVELS == <<RiskBand("Low", 0, 40), RiskBand("Medium", 40, 70), RiskBand("High", 70, 100)>>

\* the rates an oracle response can carry, in hundredths
RateNumbers == {-20, 0, 50, 60, 80, 99, 100, 150}

\* values of a rate key: absent, null or a number
RateFields ==
    {[k |-> "missing", n |-> 0], [k |-> "null", n |-> 0]} \cup [k : {"num"}, n : RateNumbers]

\* values of the "confidence" key of the two responses
ConfidenceFields == {[k |-> "num", n |-> 90], [k |-> "null", n |-> 0]}

NoRates == [type |-> "none"]

\* {"compilation_success_rate": ..., "confidence": ...}
CompilationObjects ==
    [type : {"object"}, compilation_success_rate : RateFields, confidence : ConfidenceFields]

\* {"fr_completion_rate": ..., "nfr_completion_rate": ..., "confidence": ...}
RequirementObjects ==
    [type : {"object"}, fr_completion_rate : RateFields, nfr_completion_rate : RateFields,
     confidence : ConfidenceFields]

\* what get_llm_completion can do on a prompt whose well-formed answers are
\* objects: raise, answer with text that is no JSON, with a JSON array, with
\* a fenced object, or with a bare object
RateCompletions(objects) ==
    {CanonText("raise", FALSE, FALSE, NoRates),
     CanonText("garbage", FALSE, FALSE, NoRates),
     CanonText("json", FALSE, FALSE, [type |-> "array"])}
      \cup {CanonText("json", TRUE, FALSE, o) :
                o \in {x \in objects : \A f \in DOMAIN x \ {"type"} : x[f] = [k |-> "num", n |-> 100]}}
      \cup {CanonText("json", FALSE, FALSE, o) : o \in objects}

NoRiskInput == [given |-> FALSE]

\* the project's data calculate_risk reads and the two completions it gets
RiskInput(snapshot, fr_list, nfr_list, compilation_output, raw) ==
    [given |-> TRUE, snapshot |-> snapshot, fr_list |-> fr_list, nfr_list |-> nfr_list,
     compilation_output |-> compilation_output, raw_output |-> raw]

RiskInputs ==
    {RiskInput(FALSE, TRUE, TRUE, CanonText("raise", FALSE, FALSE, NoRates),
               CanonText("raise", FALSE, FALSE, NoRates)),
     RiskInput(TRUE, FALSE, FALSE, CanonText("raise", FALSE, FALSE, NoRates),
               CanonText("raise", FALSE, FALSE, NoRates))}
      \cup {RiskInput(TRUE, have[1], have[2], c, r) :
                have \in {<<TRUE, TRUE>>, <<TRUE, FALSE>>, <<FALSE, TRUE>>},
                c \in RateCompletions(CompilationObjects),
                r \in RateCompletions(RequirementObjects)}

\* a row of risk_assessments; scores in hundredths
RiskAssessment(commit_id, FR_completion_score, NFR_completion_score, compilation_rate, final_score, recommendation) ==
    [commit_id |-> commit_id,
     FR_completion_score |-> FR_completion_score,
     NFR_completion_score |-> NFR_completion_score,
     compilation_rate |-> compilation_rate, final_score |-> final_score,
     recommendation |-> recommendation]

\* the tables an assessment can start from: no row, or one earlier row
EarlierAssessments == {<<>>, <<RiskAssessment("B", 100, 100, 100, 0, "Do Not Release")>>}

\* the commit id of the snapshot get_latest_snapshot_by_project returns
LatestCommit == "C"

\* lines 133-141: the rate and the confidence read from the first completion
compilation_rates(text) ==
    LET p == json_loads(text)
    IN  IF /\ p.ok
           /\ p.value.type = "object"
           /\ float_ok(p.value.compilation_success_rate)
           /\ float_ok(p.value.confidence)
        THEN [compilation_success_rate |-> float(p.value.compilation_success_rate),
              comp_confidence |-> float(p.value.confidence)]
        ELSE [compilation_success_rate |-> 0, comp_confidence |-> 0]

\* lines 146-155: the rates and the confidence read from the second completion
requirement_rates(text) ==
    LET p == json_loads(text)
    IN  IF /\ p.ok
           /\ p.value.type = "object"
           /\ float_ok(p.value.fr_completion_rate)
           /\ float_ok(p.value.nfr_completion_rate)
           /\ float_ok(p.value.confidence)
        THEN [fr_completion_rate |-> float(p.value.fr_completion_rate),
              nfr_completion_rate |-> float(p.value.nfr_completion_rate),
              req_confidence |-> float(p.value.confidence)]
        ELSE [fr_completion_rate |-> 0, nfr_completion_rate |-> 0, req_confidence |-> 0]

\* lines 158-162, in thousandths
risk_numeric(fr_completion_rate, nfr_completion_rate, compilation_success_rate) ==
    FR_WEIGHT * (100 - fr_completion_rate)
        + NFR_WEIGHT * (100 - nfr_completion_rate)
        + COMPILATION_WEIGHT * (100 - compilation_success_rate)

\* round(x, 2) of x thousandths, in hundredths: the nearest hundredth; for x
\* halfway between two hundredths the result depends on the binary value of
\* the float sum, so either neighbour
round_2(x) ==
    LET q == x \div 10
        r == x % 10
    IN  IF r < 5 THEN {q} ELSE IF r > 5 THEN {q + 1} ELSE {q, q + 1}

RECURSIVE FirstBand(_, _)
FirstBand(bands, score) ==
    IF bands = <<>> THEN "Unknown"
    ELSE IF Head(bands).low <= score /\ score < Head(bands).high
         THEN Head(bands).level
         ELSE FirstBand(Tail(bands), score)

\* the first band of RISK_LEVELS with low <= score < high, else "Unknown"
classify_risk_level(score) == FirstBand(RISK_LEVELS, score)

\* lines 167-172
release_decision(risk_score) ==
    IF risk_score >= RISK_GO_THRESHOLD THEN "Release"
    ELSE IF risk_score <= RISK_NO_GO_THRESHOLD THEN "Do Not Release"
    ELSE "Conditionally Release"

NoRiskData == [risk_level |-> "none"]

NoRiskResult == [status |-> "none", error |-> "none", data |-> NoRiskData]

Raised(error) == [status |-> "raised", error |-> error, data |-> NoRiskData]

\* risk_data for a risk_score in hundredths; its "risk_score" is
\* round(risk_score * 100, 1), kept in tenths of a point
risk_data(comp, req, risk_score) ==
    [risk_level |-> classify_risk_level(risk_score),
     release_decision |-> release_decision(risk_score),
     fr_completion_rate |-> req.fr_completion_rate,
     nfr_completion_rate |-> req.nfr_completion_rate,
     compilation_success_rate |-> comp.compilation_success_rate,
     risk_score |-> 10 * risk_score,
     compilation_confidence |-> comp.comp_confidence,
     requirements_coverage_confidence |-> req.req_confidence]

create_risk_assessment_replacing(table, comp, req, risk_score) ==
    <<RiskAssessment(LatestCommit, req.fr_completion_rate, req.nfr_completion_rate,
                     comp.compilation_success_rate, risk_score,
                     release_decision(risk_score))>>

\* db.add(risk); db.commit()
create_risk_assessment(table, comp, req, risk_score) ==
    Append(table, RiskAssessment(LatestCommit, req.fr_completion_rate, req.nfr_completion_rate,
                                 comp.compilation_success_rate, risk_score,
                                 release_decision(risk_score)))

\* one call of calculate_risk for the project
calculate_risk ==
    /\ risk_input.given
    /\ risk_result.status = "none"
    /\ IF ~risk_input.snapshot
       THEN /\ risk_result' = Raised("ValueError: latest snapshot not found")
            /\ UNCHANGED risk_assessments
       ELSE IF ~risk_input.fr_list /\ ~risk_input.nfr_list
       THEN /\ risk_result' = Raised("ValueError: no requirements found")
            /\ UNCHANGED risk_assessments
       ELSE IF risk_input.compilation_output.form = "raise" \/ risk_input.raw_output.form = "raise"
       THEN /\ risk_result' = Raised("oracle")
            /\ UNCHANGED risk_assessments
       ELSE LET comp == compilation_rates(risk_input.compilation_output)
                req == requirement_rates(risk_input.raw_output)
            IN  \E risk_score \in round_2(risk_numeric(req.fr_completion_rate,
                                                       req.nfr_completion_rate,
                                                       comp.compilation_success_rate)) :
                    /\ risk_assessments' =
                           create_risk_assessment(risk_assessments, comp, req, risk_score)
                    /\ risk_result' = [status |-> "returned", error |-> "none",
                                       data |-> risk_data(comp, req, risk_score)]
    /\ UNCHANGED risk_input
    /\ UNCHANGED storeVars
    /\ UNCHANGED callerVars
    /\ UNCHANGED adapterVars
    /\ UNCHANGED canonVars
    /\ UNCHANGED metricsVars

-----------------------------------------------------------------------------
(* Specifications                                                          *)

InitStore ==
    /\ snapshots = [c \in CommitIds |-> NoSnapshot]
    /\ reviews = <<>>
    /\ classifications = <<>>

InitCanonOff ==
    /\ issues = <<>>
    /\ batch_start = 1
    /\ attempt = 0
    /\ last_response = NoCompletion
    /\ all_grouped = <<>>
    /\ batch_log = <<>>
    /\ canon_pc = "off"
    /\ team_grouped_issues = <<>>
    /\ joined = <<>>
    /\ metrics = NoMetrics

InitRiskOff ==
    /\ risk_input = NoRiskInput
    /\ risk_assessments = <<>>
    /\ risk_result = NoRiskResult

InitCallers ==
    /\ pc = [p \in Callers |-> "idle"]
    /\ target = [p \in Callers |-> "A"]
    /\ oracle = [p \in Callers |-> <<>>]
    /\ results = [p \in Callers |-> <<>>]
    /\ idx = [p \in Callers |-> 1]
    /\ returned = [p \in Callers |-> <<>>]

Init ==
    /\ InitStore
    /\ InitCallers
    /\ raw_output = RaisedCompletion
    /\ outcome = Pending
    /\ parsed = NotParsed
    /\ InitCanonOff
    /\ InitRiskOff

\* one /classify request
RequestStep(p) ==
    \/ \E c \in CommitIds : StartWalk(p, c)
    \/ create_classification_existing(p)
    \/ create_classification_query(p)
    \/ create_classification_insert(p)

\* a caller serving one /classify request after the other
CallerStep(p) ==
    \/ RequestStep(p)
    \/ Respond(p)

StoreStep ==
    \/ \E c \in CommitIds, par \in CommitIds \cup {NoParent} : create_snapshot(c, par)
    \/ \E c \in CommitIds : create_review(c)

\* two /classify requests, one per caller, interleave at every store access
\* with each other and with the writers of the snapshot and review tables
Next ==
    \/ StoreStep
    \/ \E p \in Callers : RequestStep(p)

Spec == Init /\ [][Next]_vars

\* one request at a time, all served by caller 1: the tables are written
\* only between two /classify requests
NextSeq ==
    \/ /\ pc[1] = "idle"
       /\ StoreStep
    \/ CallerStep(1)

SpecSeq == Init /\ [][NextSeq]_vars

\* one run of the adapter and of the lenient parser on one completion
InitAdapter ==
    /\ InitStore
    /\ InitCallers
    /\ raw_output \in Completions
    /\ outcome = Pending
    /\ parsed = NotParsed
    /\ InitCanonOff
    /\ InitRiskOff

AdapterClassify ==
    /\ outcome = Pending
    /\ outcome' = llm_classify_review(raw_output)
    /\ UNCHANGED <<raw_output, parsed>>
    /\ UNCHANGED storeVars
    /\ UNCHANGED callerVars
    /\ UNCHANGED aggregateVars

AdapterParse ==
    /\ parsed = NotParsed
    /\ raw_output.form # "raise"
    /\ parsed' = safe_json_parse(raw_output)
    /\ UNCHANGED <<raw_output, outcome>>
    /\ UNCHANGED storeVars
    /\ UNCHANGED callerVars
    /\ UNCHANGED aggregateVars

NextAdapter ==
    \/ AdapterClassify
    \/ AdapterParse

SpecAdapter == InitAdapter /\ [][NextAdapter]_vars

InitAggregate ==
    /\ InitStore
    /\ InitCallers
    /\ raw_output = RaisedCompletion
    /\ outcome = Pending
    /\ parsed = NotParsed
    /\ issues = <<>>
    /\ batch_start = 1
    /\ attempt = 0
    /\ last_response = NoCompletion
    /\ all_grouped = <<>>
    /\ batch_log = <<>>
    /\ canon_pc = "start"
    /\ team_grouped_issues = <<>>
    /\ metrics = NoMetrics
    /\ InitRiskOff

\* one run of calculate_metrics on the classified suggestions of one author
\* whose recurring issues fill more than one batch of the canonicalizer
InitCanon ==
    /\ InitAggregate
    /\ joined \in IssueRowLists

NextCanon ==
    \/ FoldRows
    \/ ReturnEmpty
    \/ GroupStep
    \/ DeriveMetrics

SpecCanon == InitCanon /\ [][NextCanon]_vars

\* one run of calculate_metrics on a query result of two authors' rows
InitMetrics ==
    /\ InitAggregate
    /\ joined \in JoinedLists

NextMetrics ==
    \/ FoldRows
    \/ ReturnEmpty
    \/ PlainGroupStep
    \/ DeriveMetrics

SpecMetrics == InitMetrics /\ [][NextMetrics]_vars

\* one call of calculate_risk on one project state and one pair of completions
InitRisk ==
    /\ InitStore
    /\ InitCallers
    /\ raw_output = RaisedCompletion
    /\ outcome = Pending
    /\ parsed = NotParsed
    /\ InitCanonOff
    /\ risk_input \in RiskInputs
    /\ risk_assessments \in EarlierAssessments
    /\ risk_result = NoRiskResult

NextRisk == calculate_risk

SpecRisk == InitRisk /\ [][NextRisk]_vars

-----------------------------------------------------------------------------
(* Properties                                                              *)

ReviewIds == 1..MaxReviews

\* the request of caller p has its walk's result list
Walked(p) == pc[p] \in {"save", "insert", "done"}

\* the fields create_classification writes
SameFields(row, c) ==
    /\ row.review_id = c.review_id
    /\ row.category = c.category
    /\ row.classification = c.classification
    /\ row.recurring_issue = c.recurring_issue
    /\ row.confidence = c.confidence
    /\ row.rationale = c.rationale

\* C1: under every interleaving of two requests that classify the same
\* review, the table never holds more than one row for a review_id, and
\* every row create_classification returned is the one row of its review.
C1_OneRowUnderInterleaving ==
    /\ \A r \in ReviewIds : Len(RowsFor(r)) <= 1
    /\ \A p \in Callers : \A i \in 1..Len(returned[p]) :
         RowsFor(returned[p][i].review_id) = <<returned[p][i]>>

\* C2: with requests served one after the other, every review keeps at most
\* one row, and once a review has its row no later walk changes that row.
C2_FirstWriteKept ==
    [][\A r \in ReviewIds :
          /\ Len(RowsFor(r)') <= 1
          /\ Len(RowsFor(r)) = 1 => RowsFor(r)' = RowsFor(r)]_vars

\* a later walk answered differently for a review that has its row already,
\* and create_classification has returned for it
C2_Witness ==
    /\ pc[1] = "done"
    /\ \E i \in 1..Len(results[1]) :
         /\ Len(RowsFor(results[1][i].review_id)) = 1
         /\ ~SameFields(RowsFor(results[1][i].review_id)[1], results[1][i])
         /\ returned[1][i] = RowsFor(results[1][i].review_id)[1]

\* C3: whatever the oracle answers, the adapter's outcome has a label from
\* VALID_LABELS and a category from REVIEW_CATEGORIES.
C3_LabelAndCategoryInEnum ==
    (outcome # Pending /\ ~outcome.raised) =>
        /\ outcome.label \in VALID_LABELS
        /\ outcome.category \in REVIEW_CATEGORIES

\* the try block of llm_classify_review got through on raw_output
ResponseParsed ==
    /\ raw_output.form = "json"
    /\ ~raw_output.fenced
    /\ ~raw_output.trailing
    /\ raw_output.value.type = "object"
    /\ Null \notin {raw_output.value.label, raw_output.value.category,
                    raw_output.value.recurring_issue}
    /\ raw_output.value.confidence.k \in {"num", "numstr", "missing"}

\* the number the oracle gave as its confidence (0.0 when it gave none)
OracleConfidence ==
    IF raw_output.value.confidence.k = "missing" THEN 0
    ELSE raw_output.value.confidence.n

\* C4: a parsed confidence below 0.6 gives the default label whatever label
\* the oracle claimed, and the oracle's confidence is returned as it is.
C4_LowConfidenceRejected ==
    (outcome # Pending /\ ResponseParsed /\ OracleConfidence < 60) =>
        /\ outcome.label = CLASSIFICATION_REJECTED
        /\ outcome.confidence = OracleConfidence

\* the oracle claimed "accepted" with confidence 0.59
C4_Witness ==
    /\ outcome # Pending
    /\ ResponseParsed
    /\ raw_output.value.label = "accepted"
    /\ raw_output.value.confidence = [k |-> "num", n |-> 59]
    /\ outcome.label = "rejected"
    /\ outcome.confidence = 59

\* C5: every stored row has its confidence within [0, 1].
C5_StoredConfidenceInRange ==
    \A i \in 1..Len(classifications) :
        /\ classifications[i].confidence >= 0
        /\ classifications[i].confidence <= 100

\* C6: a well-formed object in code fences, or with a trailing comma, with
\* a valid label and confidence >= 0.6 comes back with the oracle's label
\* and confidence, not as the parse-failure default.
C6_FencedResponseAccepted ==
    (/\ outcome # Pending
     /\ raw_output.form = "json"
     /\ raw_output.fenced \/ raw_output.trailing
     /\ raw_output.value.type = "object"
     /\ raw_output.value.label \in VALID_LABELS
     /\ raw_output.value.confidence.k = "num"
     /\ raw_output.value.confidence.n >= 60
     /\ raw_output.value.category \in REVIEW_CATEGORIES
     /\ raw_output.value.recurring_issue # Missing)
    => /\ outcome.label = raw_output.value.label
       /\ outcome.confidence = raw_output.value.confidence.n
       /\ outcome.rationale # "parse_failure"

\* review ids attached to a commit, ascending
ReviewsAt(commit_id) == {r \in 1..Len(reviews) : reviews[r] = commit_id}

\* how often a review occurs in a result list
Occurrences(rs, r) == Cardinality({i \in 1..Len(rs) : rs[i].review_id = r})

Stored(c) == snapshots[c].stored

ParentOf(c) == snapshots[c].parent_commit_id

\* A (root) <- B <- C, all stored, A and B both reviewed
ChainABC ==
    /\ Stored("A") /\ Stored("B") /\ Stored("C")
    /\ ParentOf("A") = NoParent
    /\ ParentOf("B") = "A"
    /\ ParentOf("C") = "B"
    /\ ReviewsAt("A") # {}
    /\ ReviewsAt("B") # {}

\* C7 as stated: over A <- B <- C the walk from C returns outcomes for the
\* reviews of B only.
C7_OnlyReviewsOfB ==
    (ChainABC /\ Walked(1) /\ target[1] = "C") =>
        /\ {results[1][i].review_id : i \in 1..Len(results[1])} = ReviewsAt("B")
        /\ \A i \in 1..Len(results[1]) : reviews[results[1][i].review_id] # "A"

\* C7 as amended: over A <- B <- C the walk from C returns the outcomes of
\* B's reviews (B against C) and then those of A's reviews (A against B),
\* each review once, and nothing else.
C7_ReviewsOfBThenA ==
    (ChainABC /\ Walked(1) /\ target[1] = "C") =>
        /\ Len(results[1]) = Cardinality(ReviewsAt("A")) + Cardinality(ReviewsAt("B"))
        /\ \A r \in ReviewsAt("A") \cup ReviewsAt("B") : Occurrences(results[1], r) = 1
        /\ \A i \in 1..Len(results[1]) :
             LET c == results[1][i]
             IN  \/ /\ reviews[c.review_id] = "B"
                    /\ c.parent_commit_id = "B" /\ c.child_commit_id = "C"
                    /\ i <= Cardinality(ReviewsAt("B"))
                 \/ /\ reviews[c.review_id] = "A"
                    /\ c.parent_commit_id = "A" /\ c.child_commit_id = "B"
                    /\ i > Cardinality(ReviewsAt("B"))

C7_Witness ==
    /\ ChainABC
    /\ pc[1] = "done"
    /\ target[1] = "C"
    /\ Len(results[1]) = 2

\* snapshots reachable from c over stored parents, c's own ancestors added
\* to seen
RECURSIVE Reach(_, _)
Reach(c, seen) ==
    IF ParentOf(c) = NoParent \/ ~Stored(ParentOf(c)) \/ ParentOf(c) \in seen
    THEN seen
    ELSE Reach(ParentOf(c), seen \cup {ParentOf(c)})

\* the proper ancestors of a stored commit
ProperAncestors(c) == Reach(c, {})

\* C8: the step in which a walk from T returns gives exactly one outcome to
\* every review of a proper ancestor of T that has no stored row, and none
\* to a review of T or of a snapshot off T's chain.
C8_OneOutcomePerAncestorReview ==
    [][(pc[1] = "idle" /\ Walked(1)')
        => \A r \in 1..Len(reviews) :
             /\ (reviews[r] \in ProperAncestors(target'[1]) /\ Len(RowsFor(r)) = 0)
                   => Occurrences(results'[1], r) = 1
             /\ reviews[r] \notin ProperAncestors(target'[1])
                   => Occurrences(results'[1], r) = 0]_vars

\* a walk returned outcomes while the target and an off-chain snapshot have
\* reviews too
C8_Witness ==
    /\ Walked(1)
    /\ Len(results[1]) = 1
    /\ Len(reviews) = 2
    /\ reviews[1] # reviews[2]
    /\ \E r \in 1..2 : reviews[r] \notin ProperAncestors(target[1])

\* the target is missing, or a parent id on its path names no snapshot
BrokenChain(t) ==
    \/ ~Stored(t)
    \/ \E c \in Reach(t, {t}) : ParentOf(c) # NoParent /\ ~Stored(ParentOf(c))

\* C9: a request whose target or whose chain has a missing snapshot ends in
\* the error, with no result list.
C9_MissingSnapshotRaises ==
    (pc[1] # "idle" /\ BrokenChain(target[1])) =>
        /\ pc[1] = "error"
        /\ results[1] = <<>>
        /\ returned[1] = <<>>

\* the walk classified a review of the parent before it met the missing
\* grandparent
C9_Witness ==
    /\ pc[1] = "error"
    /\ Stored(target[1])
    /\ Len(oracle[1]) > 0

\* C10: a raising oracle call does not end the walk (only a missing
\* snapshot does); its review gets (unknown, 0.0, Other, Other) and every
\* other review the outcome of its own completion.
C10_OracleFailureIsolated ==
    /\ pc[1] = "error" => BrokenChain(target[1])
    /\ Walked(1) =>
         /\ Len(results[1]) = Len(oracle[1])
         /\ \A i \in 1..Len(results[1]) :
              LET c == results[1][i]
              IN  IF oracle[1][i].form = "raise"
                  THEN /\ c.classification = "unknown"
                       /\ c.confidence = 0
                       /\ c.category = "Other"
                       /\ c.recurring_issue = "Other"
                  ELSE /\ c.classification = oracle[1][i].value.label
                       /\ c.confidence = oracle[1][i].value.confidence.n
                       /\ c.category = oracle[1][i].value.category

\* one oracle call of the walk raised, the other answered
C10_Witness ==
    /\ pc[1] = "done"
    /\ Len(results[1]) = 2
    /\ oracle[1][1].form = "raise"
    /\ oracle[1][2].form = "json"
    /\ results[1][2].classification = "accepted"

\* C11 as stated: after a walk that failed on a missing parent, the reviews
\* of the nearer ancestors it had classified have their rows in the store.
C11_PartialOutcomesStored ==
    (pc[1] = "error" /\ Stored(target[1])) =>
        \A r \in 1..Len(reviews) :
            reviews[r] \in ProperAncestors(target[1]) => Len(RowsFor(r)) >= 1

\* C11 as amended: the step in which a walk fails writes no row; the
\* outcomes it had produced are dropped with the exception.
C11_FailedWalkWritesNothing ==
    [][(pc[1] = "idle" /\ pc'[1] = "error") => classifications' = classifications]_vars

\* a walk failed after the oracle had classified a review, and no row exists
C11_Witness ==
    /\ pc[1] = "error"
    /\ Len(oracle[1]) > 0
    /\ oracle[1][1].form = "json"
    /\ classifications = <<>>


\* the canonicalizer has returned its map
Returned == canon_pc \in {"returned", "reported"}

\* every oracle call of the run succeeded
EveryCallSucceeded == \A b \in 1..Len(batch_log) : batch_log[b].ok /\ batch_log[b].calls = 1

RECURSIVE CountIn(_, _)
CountIn(list, s) ==
    IF list = <<>> THEN 0
    ELSE (IF Head(list) = s THEN 1 ELSE 0) + CountIn(Tail(list), s)

RECURSIVE TimesGrouped(_, _)
TimesGrouped(grouped, s) ==
    IF grouped = <<>> THEN 0
    ELSE CountIn(Head(grouped).originals, s) + TimesGrouped(Tail(grouped), s)

\* C12: when every oracle call succeeds with a grouping that partitions the
\* strings it was sent, the returned map holds each distinct input string
\* exactly once over all its groups, also when equal strings fall into
\* different batches
C12_EachDistinctStringOnce ==
    (Returned /\ EveryCallSucceeded) =>
        \A s \in IssueStrings :
            TimesGrouped(all_grouped, s) = IF s \in issues_to_send(issues) THEN 1 ELSE 0

\* the claim's own reading of a successful attempt: a non-empty response
\* that parses, fences and trailing commas aside, to an object with the key
Succeeds(raw) ==
    /\ raw.form = "json"
    /\ raw.value.type = "object"
    /\ raw.value.has_key

\* C13: for one batch the oracle is called at most MAX_RETRIES = 3 times; a
\* call with an empty response or one that does not parse to an object with
\* canonical_categories is a failed attempt and is followed by another call
\* unless it was the third; the first successful call ends the batch with
\* the grouping of that response; three failed calls end it with exactly
\* the sentinel group LLMError
C13_AtMostThreeCallsThenSentinel ==
    [][(/\ canon_pc = "run"
        /\ attempt' # attempt \/ batch_log' # batch_log
        /\ last_response'.form # "raise") =>
          /\ attempt < 3
          /\ Succeeds(last_response') =>
                 /\ batch_log' = Append(batch_log,
                                        BatchResult(attempt + 1, TRUE, last_response'.value.groups))
                 /\ attempt' = 0
          /\ (~Succeeds(last_response') /\ attempt < 2) =>
                 /\ batch_log' = batch_log
                 /\ attempt' = attempt + 1
                 /\ canon_pc' = "run"
          /\ (~Succeeds(last_response') /\ attempt = 2) =>
                 /\ batch_log' = Append(batch_log, BatchResult(3, FALSE, LLMError))
                 /\ attempt' = 0]_vars

C13_Witness ==
    /\ Len(batch_log) = 2
    /\ batch_log[1] = BatchResult(3, FALSE, LLMError)
    /\ batch_log[2].ok
    /\ batch_log[2].calls = 2
    /\ last_response.fenced

\* number of batches of a list of n issues
Batches(n) == (n + BATCH_SIZE - 1) \div BATCH_SIZE

\* C14: a batch that exhausts its retries does not stop the run: when the
\* canonicalizer returns, every batch of the list was processed and every
\* group of every successful batch is in the returned map, with all the
\* strings that batch filed under it
C14_FailedBatchIsolated ==
    Returned =>
        /\ Len(batch_log) = Batches(Len(issues))
        /\ \A b \in 1..Len(batch_log) :
              batch_log[b].ok =>
                  \A g \in 1..Len(batch_log[b].grouped) :
                      LET i == CatIndex(all_grouped, batch_log[b].grouped[g].cat)
                      IN  /\ i # 0
                          /\ \A s \in issues_to_send(batch_log[b].grouped[g].originals) :
                                 CountIn(all_grouped[i].originals, s) >=
                                     CountIn(batch_log[b].grouped[g].originals, s)

C14_Witness ==
    /\ Returned
    /\ Len(batch_log) = 2
    /\ ~batch_log[1].ok
    /\ batch_log[2].ok
    /\ Len(all_grouped) = 2

DistinctCount(cat) ==
    LET i == CatIndex(all_grouped, cat)
    IN  Cardinality(issues_to_send(all_grouped[i].originals))

Reported(cat) == \E r \in 1..Len(team_grouped_issues) : team_grouped_issues[r].cat = cat

\* C18: the team's count of a canonical group is the number of distinct raw
\* strings the group subsumes; at most RECURRING_ISSUE_TOP_K = 5 groups are
\* reported and no reported group is smaller than an unreported one (checked
\* on the runs whose oracle calls all succeeded)
C18_TeamCountIsDistinctStrings ==
    (canon_pc = "reported" /\ EveryCallSucceeded) =>
        /\ Len(team_grouped_issues) <= 5
        /\ \A r \in 1..Len(team_grouped_issues) :
              /\ CatIndex(all_grouped, team_grouped_issues[r].cat) # 0
              /\ team_grouped_issues[r].count = DistinctCount(team_grouped_issues[r].cat)
        /\ \A r \in 1..Len(team_grouped_issues), u \in 1..Len(all_grouped) :
              ~Reported(all_grouped[u].cat) =>
                  team_grouped_issues[r].count >= DistinctCount(all_grouped[u].cat)

\* the authors of the joined rows
Authors == {joined[i].dev : i \in 1..Len(joined)}

\* the number of joined rows of author dev whose label is in labels
Labelled(dev, labels) ==
    Cardinality({i \in 1..Len(joined) : joined[i].dev = dev /\ joined[i].classification \in labels})

AllLabels == {"accepted", "modified", "rejected", "unknown"}

\* value is num / den to the nearest hundredth
NearestHundredth(value, num, den) ==
    /\ 2 * (100 * num - value * den) <= den
    /\ 2 * (value * den - 100 * num) <= den

\* C15: every author's acceptance_rate is the number of the author's
\* outcomes labelled accepted or modified divided by the number of all the
\* author's outcomes, to two decimals (3 of 4 gives 0.75); the team's rate is
\* the same ratio over all outcomes, and 0 when there is none
C15_AcceptanceRateIsRatio ==
    metrics.computed =>
        /\ DOMAIN metrics.acceptance_rate = Authors
        /\ \A dev \in Authors :
              /\ NearestHundredth(metrics.acceptance_rate[dev],
                                  Labelled(dev, {"accepted", "modified"}),
                                  Labelled(dev, AllLabels))
              /\ (/\ Labelled(dev, {"accepted", "modified"}) = 3
                  /\ Labelled(dev, AllLabels) = 4) => metrics.acceptance_rate[dev] = 75
        /\ IF joined = <<>>
           THEN metrics.team_acceptance_rate = 0
           ELSE NearestHundredth(metrics.team_acceptance_rate,
                                 Cardinality({i \in 1..Len(joined) :
                                     joined[i].classification \in {"accepted", "modified"}}),
                                 Len(joined))

C15_Witness ==
    /\ metrics.computed
    /\ Labelled("dev1", {"accepted"}) = 2
    /\ Labelled("dev1", {"modified"}) = 1
    /\ Labelled("dev1", {"rejected"}) = 1
    /\ Labelled("dev1", AllLabels) = 4
    /\ metrics.acceptance_rate["dev1"] = 75

\* the days with a handled count of author dev, and the handled count of a day
HandledDays(dev) ==
    {joined[i].day : i \in {j \in 1..Len(joined) :
        /\ joined[j].dev = dev
        /\ joined[j].classification \in {"accepted", "modified"}
        /\ joined[j].day # NoDate}}

HandledOn(dev, days) ==
    Cardinality({i \in 1..Len(joined) :
        /\ joined[i].dev = dev
        /\ joined[i].classification \in {"accepted", "modified"}
        /\ joined[i].day \in days})

\* C16: every author with at least one outcome gets an avg_handled_per_day:
\* the sum of the author's per-day handled counts divided by the number of
\* days with a handled count, and 0 when the author has no such day
C16_AvgHandledForEveryAuthor ==
    metrics.computed =>
        \A dev \in Authors :
            /\ dev \in DOMAIN metrics.avg_per_dev
            /\ IF HandledDays(dev) = {}
               THEN metrics.avg_per_dev[dev] = 0
               ELSE NearestHundredth(metrics.avg_per_dev[dev],
                                     HandledOn(dev, HandledDays(dev)),
                                     Cardinality(HandledDays(dev)))

\* the category an outcome is counted under: its own, "Other" without one
CategoryOf(i) == IF joined[i].category = "" THEN "Other" ELSE joined[i].category

Categories == {CategoryOf(i) : i \in 1..Len(joined)}

\* the outcomes of author dev in category cat labelled accepted, modified or rejected
Touched(dev, cat) ==
    Cardinality({i \in 1..Len(joined) :
        /\ joined[i].dev = dev
        /\ CategoryOf(i) = cat
        /\ joined[i].classification \in {"accepted", "modified", "rejected"}})

\* the reported count of author dev in category cat, 0 without an entry
ReportedCount(dev, cat) ==
    IF dev \in DOMAIN metrics.per_dev_category
    THEN IF cat \in DOMAIN metrics.per_dev_category[dev]
         THEN metrics.per_dev_category[dev][cat] ELSE 0
    ELSE 0

RECURSIVE SumOfAuthors(_, _)
SumOfAuthors(devs, cat) ==
    IF devs = {} THEN 0
    ELSE LET dev == CHOOSE d \in devs : TRUE
         IN  ReportedCount(dev, cat) + SumOfAuthors(devs \ {dev}, cat)

\* C17: the per-category count reported for an author is the number of the
\* author's outcomes in that category labelled accepted, modified or
\* rejected (an entry exists whenever that number is positive); the team's
\* count of a category is the sum of the authors' counts; outcomes with
\* another label are in no category count
C17_CategoryCountsTouched ==
    metrics.computed =>
        /\ DOMAIN metrics.per_dev_category \subseteq Authors
        /\ \A dev \in DOMAIN metrics.per_dev_category :
              DOMAIN metrics.per_dev_category[dev] \subseteq Categories
        /\ DOMAIN metrics.team_category_counts_final \subseteq Categories
        /\ \A dev \in Authors, cat \in Categories :
              /\ ReportedCount(dev, cat) = Touched(dev, cat)
              /\ Touched(dev, cat) > 0 => cat \in DOMAIN metrics.per_dev_category[dev]
        /\ \A cat \in Categories :
              (IF cat \in DOMAIN metrics.team_category_counts_final
               THEN metrics.team_category_counts_final[cat] ELSE 0) = SumOfAuthors(Authors, cat)

C17_Witness ==
    /\ metrics.computed
    /\ Labelled("dev1", {"unknown"}) = 1
    /\ Labelled("dev1", {"rejected"}) = 1
    /\ Labelled("dev2", {"modified"}) = 1
    /\ metrics.per_dev_category["dev1"]["Style"] = 2
    /\ metrics.team_category_counts_final["Style"] = 3

\* the three completion rates calculate_risk read, each a number of
\* hundredths within [0, 1]
RatesWithinUnit ==
    /\ risk_result.status = "returned"
    /\ risk_input.compilation_output.form = "json"
    /\ ~risk_input.compilation_output.fenced
    /\ risk_input.compilation_output.value.type = "object"
    /\ risk_input.raw_output.form = "json"
    /\ ~risk_input.raw_output.fenced
    /\ risk_input.raw_output.value.type = "object"
    /\ \A f \in {risk_input.compilation_output.value.compilation_success_rate,
                  risk_input.raw_output.value.fr_completion_rate,
                  risk_input.raw_output.value.nfr_completion_rate} :
          f.k = "num" /\ 0 <= f.n /\ f.n <= 100
    /\ risk_input.compilation_output.value.confidence.k = "num"
    /\ risk_input.raw_output.value.confidence.k = "num"

FRC == risk_input.raw_output.value.fr_completion_rate.n
NFRC == risk_input.raw_output.value.nfr_completion_rate.n
CSR == risk_input.compilation_output.value.compilation_success_rate.n

\* C19: for completion rates FRC, NFRC, CSR in hundredths within [0, 1] the
\* returned risk score is 100 * (0.5 * (1 - FRC) + 0.4 * (1 - NFRC) +
\* 0.1 * (1 - CSR)); both sides are compared in hundredths of a point
C19_ScoreIsWeightedSum ==
    RatesWithinUnit =>
        10 * risk_result.data.risk_score =
            50 * (100 - FRC) + 40 * (100 - NFRC) + 10 * (100 - CSR)

\* the returned score in points is within the band low..high, edges included
\* or not as the flags say
ScoreFrom(low, inclusive) ==
    IF inclusive THEN risk_result.data.risk_score >= 10 * low
    ELSE risk_result.data.risk_score > 10 * low

\* C20: every returned score in [0, 100] falls in exactly one band: below 33
\* Low risk and the Go recommendation, from 33 to 66 Medium and Conditional,
\* above 66 High and No-Go; the level is never "Unknown"
C20_ThreeBands ==
    (/\ risk_result.status = "returned"
     /\ ScoreFrom(0, TRUE)
     /\ ~ScoreFrom(100, FALSE)) =>
        /\ risk_result.data.risk_level # "Unknown"
        /\ ~ScoreFrom(33, TRUE) =>
              /\ risk_result.data.risk_level = "Low"
              /\ risk_result.data.release_decision = "Release"
        /\ (ScoreFrom(33, TRUE) /\ ~ScoreFrom(66, FALSE)) =>
              /\ risk_result.data.risk_level = "Medium"
              /\ risk_result.data.release_decision = "Conditionally Release"
        /\ ScoreFrom(66, FALSE) =>
              /\ risk_result.data.risk_level = "High"
              /\ risk_result.data.release_decision = "Do Not Release"

\* how permissive a recommendation is: releasing most, not releasing least
Permissiveness(recommendation) ==
    CASE recommendation = "Release" -> 2
      [] recommendation = "Conditionally Release" -> 1
      [] OTHER -> 0

\* C21: the recommendation is monotone in the risk score, a higher score
\* being a higher risk: of two stored assessments the one with the greater
\* or equal score is never the more permissive, and a result whose risk
\* level is High never recommends to release
C21_RecommendationMonotone ==
    /\ \A a \in 1..Len(risk_assessments), b \in 1..Len(risk_assessments) :
          risk_assessments[a].final_score >= risk_assessments[b].final_score =>
              Permissiveness(risk_assessments[a].recommendation) <=
                  Permissiveness(risk_assessments[b].recommendation)
    /\ (risk_result.status = "returned" /\ risk_result.data.risk_level = "High") =>
          risk_result.data.release_decision # "Release"

\* both completions are bare JSON objects whose rates and confidences are numbers
NumericRates ==
    /\ risk_input.compilation_output.form = "json"
    /\ ~risk_input.compilation_output.fenced
    /\ risk_input.compilation_output.value.type = "object"
    /\ risk_input.raw_output.form = "json"
    /\ ~risk_input.raw_output.fenced
    /\ risk_input.raw_output.value.type = "object"
    /\ \A f \in {risk_input.compilation_output.value.compilation_success_rate,
                  risk_input.compilation_output.value.confidence,
                  risk_input.raw_output.value.fr_completion_rate,
                  risk_input.raw_output.value.nfr_completion_rate,
                  risk_input.raw_output.value.confidence} : f.k = "num"

WithinUnit(rate) == 0 <= rate /\ rate <= 100

\* C22: whatever numeric rates the oracle reports, also below 0 or above 1,
\* the three completion inputs calculate_risk returns and persists are
\* within [0, 1] and the risk score is within [0, 100]
C22_InputsClamped ==
    (risk_result.status = "returned" /\ NumericRates) =>
        /\ WithinUnit(risk_result.data.fr_completion_rate)
        /\ WithinUnit(risk_result.data.nfr_completion_rate)
        /\ WithinUnit(risk_result.data.compilation_success_rate)
        /\ WithinUnit(risk_assessments[Len(risk_assessments)].FR_completion_score)
        /\ WithinUnit(risk_assessments[Len(risk_assessments)].NFR_completion_score)
        /\ WithinUnit(risk_assessments[Len(risk_assessments)].compilation_rate)
        /\ 0 <= risk_result.data.risk_score
        /\ risk_result.data.risk_score <= 1000

\* a completion from which its rates cannot be obtained: no JSON object, or
\* an object lacking one of the rates in rate_keys
LacksRates(text, rate_keys) ==
    \/ text.form # "json"
    \/ text.fenced
    \/ text.value.type # "object"
    \/ \E key \in rate_keys : text.value[key].k # "num"

InputsMissing ==
    \/ ~risk_input.snapshot
    \/ ~risk_input.fr_list /\ ~risk_input.nfr_list
    \/ LacksRates(risk_input.compilation_output, {"compilation_success_rate"})
    \/ LacksRates(risk_input.raw_output, {"fr_completion_rate", "nfr_completion_rate"})

\* C23: without a snapshot, or with a completion that is missing,
\* unparseable or lacks a rate, calculate_risk ends in an error and stores
\* no row: it never stores a score computed from rates replaced by zero
C23_MissingInputsRaise ==
    [][(risk_input.given /\ InputsMissing /\ risk_result.status = "none") =>
          /\ risk_result'.status = "raised"
          /\ risk_assessments' = risk_assessments]_vars

\* the numbers a row stores and a result returns as score, both in
\* thousandths: final_score is kept in hundredths, risk_score in tenths
StoredScore(row) == 10 * row.final_score
ReturnedScore(result) == 100 * result.data.risk_score

\* C24 as stated: a successful calculate_risk appends exactly one row, for
\* the latest snapshot, whose score and recommendation equal the returned
\* score (in points) and recommendation, earlier rows unchanged; a failed
\* one appends none
C24_RowEqualsReturned ==
    [][(risk_result.status = "none" /\ risk_result'.status # "none") =>
          IF risk_result'.status = "returned"
          THEN /\ Len(risk_assessments') = Len(risk_assessments) + 1
               /\ SubSeq(risk_assessments', 1, Len(risk_assessments)) = risk_assessments
               /\ risk_assessments'[Len(risk_assessments')].commit_id = LatestCommit
               /\ StoredScore(risk_assessments'[Len(risk_assessments')]) =
                      ReturnedScore(risk_result')
               /\ risk_assessments'[Len(risk_assessments')].recommendation =
                      risk_result'.data.release_decision
          ELSE risk_assessments' = risk_assessments]_vars

\* C24 as amended: the appended row holds the returned recommendation and
\* the returned score on the scale 0..1, a hundredth of the returned points
C24_RowHoldsScoreAsFraction ==
    [][(risk_result.status = "none" /\ risk_result'.status # "none") =>
          IF risk_result'.status = "returned"
          THEN /\ Len(risk_assessments') = Len(risk_assessments) + 1
               /\ SubSeq(risk_assessments', 1, Len(risk_assessments)) = risk_assessments
               /\ risk_assessments'[Len(risk_assessments')].commit_id = LatestCommit
               /\ 100 * StoredScore(risk_assessments'[Len(risk_assessments')]) =
                      ReturnedScore(risk_result')
               /\ risk_assessments'[Len(risk_assessments')].recommendation =
                      risk_result'.data.release_decision
          ELSE risk_assessments' = risk_assessments]_vars

C24_Witness ==
    /\ risk_result.status = "returned"
    /\ Len(risk_assessments) = 2
    /\ risk_assessments[1].commit_id = "B"
    /\ risk_assessments[2].final_score = 26
    /\ risk_result.data.risk_score = 260

\* C25: classify_commits returns or raises for every target in every store
\* that create_snapshot calls can build, parent pointers forming a cycle
\* included: no request stays in the walk for ever
C25_WalkTerminates == pc[1] # "looping"

\* parent steps from commit t up to commit c; Far when c is not above t
Far == Cardinality(CommitIds) + 1

RECURSIVE Steps(_, _, _)
Steps(t, c, budget) ==
    IF t = c THEN 0
    ELSE IF budget = 0 \/ ~Stored(t) THEN Far
    ELSE IF ParentOf(t) = NoParent THEN Far
    ELSE LET rest == Steps(ParentOf(t), c, budget - 1)
         IN  IF rest = Far THEN Far ELSE rest + 1

Distance(c) == Steps(target[1], c, Cardinality(CommitIds))

\* C26: the outcomes of a walk's result list are in child-to-root order:
\* the snapshot owning an earlier outcome's review is no farther from the
\* target than the snapshot owning a later one's
C26_ChildToRootOrder ==
    Walked(1) =>
        \A i \in 1..Len(results[1]), j \in 1..Len(results[1]) :
            i < j => /\ Distance(reviews[results[1][j].review_id]) # Far
                     /\ Distance(reviews[results[1][i].review_id]) <=
                            Distance(reviews[results[1][j].review_id])

C26_Witness ==
    /\ Walked(1)
    /\ Len(results[1]) = 2
    /\ Distance(reviews[results[1][1].review_id]) = 1
    /\ Distance(reviews[results[1][2].review_id]) = 2

\* C27: every outcome of a walk's result list is tagged with the parent
\* commit that owns its review and with the child commit, a stored snapshot
\* on the walked path whose parent pointer is that parent and which is one
\* step closer to the target; the pair is the one handed to the oracle
C27_OutcomeTags ==
    Walked(1) =>
        \A i \in 1..Len(results[1]) :
            LET c == results[1][i]
            IN  /\ reviews[c.review_id] = c.parent_commit_id
                /\ Stored(c.child_commit_id)
                /\ ParentOf(c.child_commit_id) = c.parent_commit_id
                /\ Distance(c.child_commit_id) # Far
                /\ Distance(c.parent_commit_id) = Distance(c.child_commit_id) + 1

C27_Witness ==
    /\ Walked(1)
    /\ Len(results[1]) = 2
    /\ results[1][1].child_commit_id = target[1]
    /\ results[1][2].child_commit_id = results[1][1].parent_commit_id
    /\ results[1][2].parent_commit_id # results[1][1].parent_commit_id

RECURSIVE OriginalsOf(_, _, _)
OriginalsOf(log, b, cat) ==
    IF b > Len(log) THEN <<>>
    ELSE LET i == CatIndex(log[b].grouped, cat)
         IN  (IF i = 0 THEN <<>> ELSE log[b].grouped[i].originals)
                 \o OriginalsOf(log, b + 1, cat)

\* C28: the returned map's list of a key is the concatenation, in batch
\* order, of the lists the batches returned under that key: a key shared by
\* two batches has the first batch's strings followed by the second's
C28_SharedKeyAccumulates ==
    Returned =>
        \A b \in 1..Len(batch_log) :
            \A g \in 1..Len(batch_log[b].grouped) :
                LET cat == batch_log[b].grouped[g].cat
                    i == CatIndex(all_grouped, cat)
                IN  /\ i # 0
                    /\ all_grouped[i].originals = OriginalsOf(batch_log, 1, cat)

C28_Witness ==
    /\ Returned
    /\ Len(batch_log) = 2
    /\ batch_log[1].ok /\ batch_log[2].ok
    /\ Len(batch_log[1].grouped) = 1
    /\ Len(batch_log[1].grouped[1].originals) = 2
    /\ batch_log[2].grouped[1].cat = batch_log[1].grouped[1].cat
    /\ Len(all_grouped) = 1
    /\ Len(all_grouped[1].originals) = 3

\* C30: the sentinel group of the batches that exhausted their retries is
\* never reported: the team's and every author's top-K recurring issues
\* hold only canonical labels the oracle returned
C30_SentinelNotReported ==
    canon_pc = "reported" =>
        /\ \A r \in 1..Len(team_grouped_issues) : team_grouped_issues[r].cat \in CanonLabels
        /\ \A dev \in DOMAIN metrics.grouped_issues :
              \A r \in 1..Len(metrics.grouped_issues[dev]) :
                  metrics.grouped_issues[dev][r].cat \in CanonLabels

====
